---- MODULE Spec2Model ----
(***************************************************************************)
(* Incremental ("recurrent") multi-head attention of                       *)
(* simdltk/module/activation.py: MultiheadAttention.__init__, forward and  *)
(* _recurrent_forward, together with the caller that owns the decoding     *)
(* state and hands it from one call to the next.                           *)
(*                                                                         *)
(* Tensors are records [shape, data]: the shape is the tuple of sizes the  *)
(* code sees, the data is indexed by sequence position (the batch and head *)
(* axes carry the same symbolic content).  A linear projection wraps each  *)
(* position in a term naming the weight chunk used, so projected, scaled   *)
(* and raw values are distinct.  Additive masks hold 0 or -inf only.       *)
(* Dropout is p = 0 (evaluation mode).                                     *)
(***************************************************************************)
EXTENDS Integers, Sequences, FiniteSets, TLC

\* ---- bounds of the model ------------------------------------------------
MaxSteps == 3
MaxKeyLen == 2
MaxTgtLen == 2
MaxBatch == 1

Tokens == {1, 2}

\* ---- Python's Optional: None is the empty set, a value x is {x} ----------
None == {}
Some(x) == {x}
Get(o) == CHOOSE x \in o : TRUE

RECURSIVE Numel(_)
Numel(shape) == IF shape = <<>> THEN 1 ELSE Head(shape) * Numel(Tail(shape))

Repeat(x, n) == [i \in 1..n |-> x]

\* ---- MultiheadAttention.__init__ ----------------------------------------
NewModule == [status |-> "new", embed_dim |-> 0, num_heads |-> 0, head_dim |-> 0,
              kdim |-> 0, vdim |-> 0, qkv_same |-> FALSE]

CtorAssertsNoDivCheck(embed_dim, num_heads, head_dim, qkv_same) == qkv_same

\* The two assertions of the constructor.
CtorAsserts(embed_dim, num_heads, head_dim, qkv_same) ==
    /\ head_dim * num_heads = embed_dim
    /\ qkv_same

ModuleInit(embed_dim, num_heads, kdim, vdim) ==
    LET kd == IF kdim = None THEN embed_dim ELSE Get(kdim)
        vd == IF vdim = None THEN embed_dim ELSE Get(vdim)
        same == kd = embed_dim /\ vd = embed_dim
        head_dim == embed_dim \div num_heads
    IN [status |-> IF CtorAsserts(embed_dim, num_heads, head_dim, same)
                   THEN "ok" ELSE "AssertionError",
        embed_dim |-> embed_dim, num_heads |-> num_heads, head_dim |-> head_dim,
        kdim |-> kd, vdim |-> vd, qkv_same |-> same]

\* ---- tensors --------------------------------------------------------------
Tensor(shape, data) == [shape |-> shape, data |-> data]

\* A raw input of `len` timesteps: (len, bsz, embed_dim).
Input(toks, bsz, embed_dim) == Tensor(<<Len(toks), bsz, embed_dim>>, toks)

\* F.linear with one chunk of in_proj_weight / in_proj_bias.
Linear(t, chunk) ==
    Tensor(t.shape, [i \in 1..Len(t.data) |-> [w |-> chunk, x |-> t.data[i], scale |-> 0]])

\* query * self.scaling, scaling = head_dim ** -0.5.
Scale(t, head_dim) ==
    Tensor(t.shape, [i \in 1..Len(t.data) |-> [t.data[i] EXCEPT !.scale = head_dim]])

\* view(..., -1, ...): the inferred size, or -1 when torch refuses the view
\* (no elements: the size is ambiguous; or the sizes do not divide).
InferDim(shape, known) ==
    LET n == Numel(shape)
    IN IF n = 0 \/ known = 0 \/ n % known # 0 THEN -1 ELSE n \div known

\* t.contiguous().view(-1, bsz * num_heads, head_dim).transpose(0, 1)
SplitHeads(t, bsz, num_heads, head_dim) ==
    Tensor(<<bsz * num_heads, InferDim(t.shape, bsz * num_heads * head_dim), head_dim>>, t.data)

\* t.contiguous().view(bsz, num_heads, -1, head_dim)
ToCache(t, bsz, num_heads, head_dim) ==
    Tensor(<<bsz, num_heads, InferDim(t.shape, bsz * num_heads * head_dim), head_dim>>, t.data)

\* cached.contiguous().view(bsz * num_heads, -1, head_dim)
FromCache(t, bsz, num_heads, head_dim) ==
    Tensor(<<bsz * num_heads, InferDim(t.shape, bsz * num_heads * head_dim), head_dim>>, t.data)

\* torch.cat([a, b], dim=1) of (bsz*heads, len, head_dim) tensors.
Cat1(a, b) == Tensor(<<a.shape[1], a.shape[2] + b.shape[2], a.shape[3]>>, a.data \o b.data)

\* torch.cat([a, b], dim=1) of (bsz, len) masks.
CatMask(a, b) == Tensor(<<a.shape[1], a.shape[2] + b.shape[2]>>, a.data \o b.data)

\* Size of one broadcast axis, -1 when the sizes cannot be broadcast.
Broadcast(a, b) == IF a = b THEN a ELSE IF a = 1 THEN b ELSE IF b = 1 THEN a ELSE -1

\* A row expanded to width n (only a row of width 1 is ever expanded).
Expand(row, n) == IF Len(row) = n THEN row ELSE Repeat(row[1], n)

\* ---- the decoding state dict ------------------------------------------------
EmptyState == [static_key |-> None, static_value |-> None, prev_key |-> None,
               prev_value |-> None, prev_key_padding_mask |-> None]

\* ---- MultiheadAttention._recurrent_forward -------------------------------
\* Whether this call runs the key/value projections.
KVProjected(static_kv, static_key) == (~static_kv) \/ static_key = None

\* key = F.linear(key, k_proj_weight, k_proj_bias) when projected, else the raw argument.
ProjectKV(t, chunk, static_kv, static_key) ==
    IF KVProjected(static_kv, static_key) THEN Linear(t, chunk) ELSE t

BadShape(t) == \E i \in 1..Len(t.shape) : t.shape[i] < 0

GrowKVNewFirst(prev_key, prev, new, bsz, num_heads, head_dim) ==
    IF prev_key = None THEN new
    ELSE Cat1(new, FromCache(Get(prev), bsz, num_heads, head_dim))

GrowKVNoHistory(prev_key, prev, new, bsz, num_heads, head_dim) == new

\* The growing branch: when prev_key is cached, the cached history comes first,
\* then the new positions.
GrowKV(prev_key, prev, new, bsz, num_heads, head_dim) ==
    IF prev_key = None THEN new
    ELSE Cat1(FromCache(Get(prev), bsz, num_heads, head_dim), new)

\* The keys and values attended over, src_len and the cache entries written.
ResolveKV(self, bsz, src_len, static_kv, prev_state, key, value) ==
    LET h == self.num_heads
        hd == self.head_dim
    IN IF static_kv /\ prev_state.static_key # None
       THEN IF prev_state.static_value = None
            THEN [err |-> "AttributeError", key |-> key, value |-> value,
                  src_len |-> src_len, new_state |-> EmptyState]
            ELSE LET k == FromCache(Get(prev_state.static_key), bsz, h, hd)
                     v == FromCache(Get(prev_state.static_value), bsz, h, hd)
                 IN [err |-> IF BadShape(k) \/ BadShape(v) THEN "RuntimeError:view" ELSE "",
                     key |-> k, value |-> v, src_len |-> src_len, new_state |-> EmptyState]
       ELSE LET k == SplitHeads(key, bsz, h, hd)
                v == SplitHeads(value, bsz, h, hd)
            IN IF BadShape(k) \/ BadShape(v)
               THEN [err |-> "RuntimeError:view", key |-> k, value |-> v,
                     src_len |-> src_len, new_state |-> EmptyState]
               ELSE IF static_kv
               THEN [err |-> "", key |-> k, value |-> v, src_len |-> src_len,
                     new_state |-> [EmptyState EXCEPT
                                      !.static_key = Some(ToCache(k, bsz, h, hd)),
                                      !.static_value = Some(ToCache(v, bsz, h, hd))]]
               ELSE IF prev_state.prev_key # None /\ prev_state.prev_value = None
               THEN [err |-> "AttributeError", key |-> k, value |-> v,
                     src_len |-> src_len, new_state |-> EmptyState]
               ELSE LET k2 == GrowKV(prev_state.prev_key, prev_state.prev_key, k, bsz, h, hd)
                        v2 == GrowKV(prev_state.prev_key, prev_state.prev_value, v, bsz, h, hd)
                    IN [err |-> IF BadShape(k2) \/ BadShape(v2) THEN "RuntimeError:view" ELSE "",
                        key |-> k2, value |-> v2,
                        src_len |-> IF prev_state.prev_key # None THEN k2.shape[2] ELSE src_len,
                        new_state |-> [EmptyState EXCEPT
                                         !.prev_key = Some(ToCache(k2, bsz, h, hd)),
                                         !.prev_value = Some(ToCache(v2, bsz, h, hd))]]

\* torch.bmm(query, key.transpose(1, 2)): one score per (query position, key position).
Scores(query, key) ==
    Tensor(<<query.shape[1], query.shape[2], key.shape[2]>>,
           [i \in 1..Len(query.data) |->
              [j \in 1..Len(key.data) |->
                 [q |-> query.data[i], k |-> key.data[j], neg_inf |-> FALSE]]])

\* score + additive mask value (TRUE is -inf, FALSE is 0).
AddTo(entry, m) == [entry EXCEPT !.neg_inf = @ \/ m]

\* attn_weights + attn_mask.unsqueeze(0), with torch's broadcasting of the last axis.
AddAttnMask(weights, attn_mask) ==
    IF attn_mask = None THEN [err |-> "", weights |-> weights]
    ELSE LET m == Get(attn_mask)
             w == Broadcast(weights.shape[3], m.shape[2])
         IN IF w < 0 THEN [err |-> "RuntimeError:broadcast", weights |-> weights]
            ELSE [err |-> "",
                  weights |-> Tensor(<<weights.shape[1], weights.shape[2], w>>,
                     [i \in 1..Len(weights.data) |->
                        [j \in 1..w |-> AddTo(Expand(weights.data[i], w)[j],
                                              Expand(m.data, w)[j])]])]

FullPaddingMaskNewFirst(key_padding_mask, static_kv, prev_key_padding_mask) ==
    IF (~static_kv) /\ prev_key_padding_mask # None
    THEN CatMask(key_padding_mask, Get(prev_key_padding_mask))
    ELSE key_padding_mask

FullPaddingMaskAnyMode(key_padding_mask, static_kv, prev_key_padding_mask) ==
    IF prev_key_padding_mask # None
    THEN CatMask(Get(prev_key_padding_mask), key_padding_mask)
    ELSE key_padding_mask

\* The padding mask of this call: in growing mode the cached mask comes first.
FullPaddingMask(key_padding_mask, static_kv, prev_key_padding_mask) ==
    IF (~static_kv) /\ prev_key_padding_mask # None
    THEN CatMask(Get(prev_key_padding_mask), key_padding_mask)
    ELSE key_padding_mask

\* The key_padding_mask block: the mask is cached in growing mode, the weights are
\* viewed as (bsz, heads, tgt_len, src_len), filled with -inf and viewed back.
KeyPadding(self, weights, key_padding_mask, static_kv, prev_state, new_state, bsz, tgt_len, src_len) ==
    IF key_padding_mask = None
    THEN [err |-> "", weights |-> weights, new_state |-> new_state, mask |-> None]
    ELSE LET mask == FullPaddingMask(Get(key_padding_mask), static_kv,
                                     prev_state.prev_key_padding_mask)
             ns == IF static_kv THEN new_state
                   ELSE [new_state EXCEPT !.prev_key_padding_mask = Some(mask)]
             h == self.num_heads
             w == Broadcast(src_len, mask.shape[2])
             b == Broadcast(bsz, mask.shape[1])
         IN IF Numel(weights.shape) # bsz * h * tgt_len * src_len
            THEN [err |-> "RuntimeError:view", weights |-> weights,
                  new_state |-> ns, mask |-> Some(mask)]
            ELSE IF w < 0 \/ b < 0
            THEN [err |-> "RuntimeError:broadcast", weights |-> weights,
                  new_state |-> ns, mask |-> Some(mask)]
            ELSE IF b * h * tgt_len * w # bsz * h * tgt_len * src_len
            THEN [err |-> "RuntimeError:view", weights |-> weights,
                  new_state |-> ns, mask |-> Some(mask)]
            ELSE [err |-> "",
                  weights |-> Tensor(<<bsz * h, tgt_len, src_len>>,
                     [i \in 1..Len(weights.data) |->
                        [j \in 1..w |-> AddTo(Expand(weights.data[i], w)[j],
                                              Expand(mask.data, w)[j])]]),
                  new_state |-> ns, mask |-> Some(mask)]

\* softmax over the key axis followed by the weighted sum over value: a position
\* at -inf has probability 0 and drops out; the others contribute (score, value).
WeightedSum(row, value) ==
    LET pairs == [j \in 1..Len(row) |->
                    [q |-> row[j].q, k |-> row[j].k, v |-> value.data[j],
                     neg_inf |-> row[j].neg_inf]]
        Keep(p) == ~p.neg_inf
    IN SelectSeq(pairs, Keep)

\* bmm(attn_probs, value).transpose(0, 1).view(tgt_len, bsz, embed_dim), then out_proj.
AttnOutput(self, weights, value, tgt_len, bsz) ==
    IF weights.shape[3] # value.shape[2]
    THEN [err |-> "RuntimeError:bmm", attn |-> None]
    ELSE IF weights.shape[1] * weights.shape[2] * value.shape[3] # tgt_len * bsz * self.embed_dim
    THEN [err |-> "RuntimeError:view", attn |-> None]
    ELSE [err |-> "",
          attn |-> Some(Tensor(<<tgt_len, bsz, self.embed_dim>>,
                     [i \in 1..Len(weights.data) |->
                        [w |-> "out", x |-> WeightedSum(weights.data[i], value), scale |-> 0]]))]

\* An exception leaves the call: nothing is returned.  `written` is the local
\* new_state dict as filled when the exception is raised.
Raise(e, projected, written) ==
    [status |-> e, attn |-> None, attn_weights |-> None, new_state |-> None,
     kv_projected |-> projected, key |-> None, value |-> None, mask |-> None,
     written |-> Some(written)]

TgtLenCheckOff(tgt_len) == ""

\* Only tgt_len = 1 passes the explicit check before the aggregation.
TgtLenCheck(tgt_len) == IF tgt_len > 1 THEN "RuntimeError" ELSE ""

RecurrentForward(self, query, key, value, key_padding_mask, attn_mask, static_kv, prev_state) ==
    LET tgt_len == query.shape[1]
        bsz == query.shape[2]
        src_len == key.shape[1]
        static_key == prev_state.static_key
        projected == KVProjected(static_kv, static_key)
    IN IF ~self.qkv_same THEN Raise("NotImplementedError", FALSE, EmptyState)
       ELSE
       LET q == SplitHeads(Scale(Linear(query, "q"), self.head_dim),
                           bsz, self.num_heads, self.head_dim)
           k == ProjectKV(key, "k", static_kv, static_key)
           v == ProjectKV(value, "v", static_kv, static_key)
       IN IF BadShape(q) THEN Raise("RuntimeError:view", projected, EmptyState)
          ELSE
          LET kv == ResolveKV(self, bsz, src_len, static_kv, prev_state, k, v)
          IN IF kv.err # "" THEN Raise(kv.err, projected, EmptyState)
             ELSE
             LET am == AddAttnMask(Scores(q, kv.key), attn_mask)
             IN IF am.err # "" THEN Raise(am.err, projected, kv.new_state)
                ELSE
                LET kp == KeyPadding(self, am.weights, key_padding_mask, static_kv,
                                     prev_state, kv.new_state, bsz, tgt_len, kv.src_len)
                IN IF kp.err # "" THEN Raise(kp.err, projected, kp.new_state)
                   ELSE IF TgtLenCheck(tgt_len) # "" THEN Raise(TgtLenCheck(tgt_len), projected, kp.new_state)
                   ELSE
                   LET out == AttnOutput(self, kp.weights, kv.value, tgt_len, bsz)
                   IN IF out.err # "" THEN Raise(out.err, projected, kp.new_state)
                      ELSE [status |-> "ok", attn |-> out.attn,
                            attn_weights |-> Some(kp.weights),
                            new_state |-> Some(kp.new_state),
                            kv_projected |-> projected,
                            key |-> Some(kv.key), value |-> Some(kv.value),
                            mask |-> kp.mask, written |-> Some(kp.new_state)]

StateAfterCallInPlace(prev_state, written) ==
    IF written = None THEN prev_state
    ELSE [f \in DOMAIN prev_state |->
            IF Get(written)[f] # None THEN Get(written)[f] ELSE prev_state[f]]

\* The dict passed as prev_state after the call, given the entries the call
\* wrote: it is only read (prev_state.get), the entries go to the local new_state.
StateAfterCall(prev_state, written) == prev_state

\* ---- MultiheadAttention.forward -------------------------------------------
\* F.multi_head_attention_forward over a whole sequence (prev_state is None):
\* row i of the output attends over every key position left open by the
\* additive attn_mask (tgt_len x src_len) and the key_padding_mask.
BaselineForward(self, query, key, value, key_padding_mask, attn_mask) ==
    LET q == Scale(Linear(query, "q"), self.head_dim)
        k == Linear(key, "k")
        v == Linear(value, "v")
        Blocked(i, j) == \/ attn_mask # None /\ Get(attn_mask).data[i][j]
                         \/ key_padding_mask # None /\ Get(key_padding_mask).data[j]
    IN Tensor(<<query.shape[1], query.shape[2], self.embed_dim>>,
              [i \in 1..Len(q.data) |->
                 [w |-> "out",
                  x |-> WeightedSum([j \in 1..Len(k.data) |->
                                       [q |-> q.data[i], k |-> k.data[j],
                                        neg_inf |-> Blocked(i, j)]], v),
                  scale |-> 0]])

\* forward: with a prev_state the call is the incremental one.
ModuleForward(self, query, key, value, key_padding_mask, attn_mask, static_kv, prev_state) ==
    IF prev_state # None
    THEN RecurrentForward(self, query, key, value, key_padding_mask, attn_mask,
                          static_kv, Get(prev_state))
    ELSE [status |-> "ok",
          attn |-> Some(BaselineForward(self, query, key, value, key_padding_mask, attn_mask)),
          attn_weights |-> None, new_state |-> None, kv_projected |-> TRUE,
          key |-> None, value |-> None, mask |-> None, written |-> None]

\* ---- inputs a caller passes -------------------------------------------------
TgtLens == 0..MaxTgtLen
\* Raw key/value token sequences: every single timestep, and one longer source
\* of each length.
Ramp(n) == [i \in 1..n |-> IF i % 2 = 1 THEN 1 ELSE 2]
Sources == {<<t>> : t \in Tokens} \cup {Ramp(n) : n \in 2..MaxKeyLen}
\* key_padding_mask: omitted, one column, or a source mask padding the last position.
PadLast(n) == [j \in 1..n |-> j = n]
PaddingMasks(b) ==
    {None} \cup {Some(Tensor(<<b, 1>>, <<p>>)) : p \in BOOLEAN}
           \cup {Some(Tensor(<<b, n>>, PadLast(n))) : n \in 2..MaxKeyLen}
\* attn_mask (1 x t): omitted, an open row, or a row closing the first position.
ZeroRow(t) == Repeat(FALSE, t)
BlockFirst(t) == [j \in 1..t |-> j = 1]
AttnMasks ==
    {None} \cup {Some(Tensor(<<1, t>>, ZeroRow(t))) : t \in 2..MaxKeyLen}
           \cup {Some(Tensor(<<1, t>>, BlockFirst(t))) : t \in 2..MaxKeyLen}
\* The query token of a call.
QueryTokens == {1}
\* Constructor arguments (embed_dim, num_heads).
Configs == {<<4, 2>>, <<4, 3>>, <<10, 3>>}
Dims == {None, Some(4), Some(6)}

\* ---- the state machine -------------------------------------------------------
VARIABLES
    module,      \* the MultiheadAttention object (or the failed construction)
    bsz,         \* batch size of the decoding sequence in progress (0: none yet)
    prev_state,  \* the caller's decoding state dict, passed as prev_state
    result,      \* what the last call returned or raised, with its arguments
    chain        \* the calls whose returned state led to prev_state, oldest first

vars == <<module, bsz, prev_state, result, chain>>

NoResult == [status |-> "none"]

Init ==
    /\ module = NewModule
    /\ bsz = 0
    /\ prev_state = EmptyState
    /\ result = NoResult
    /\ chain = <<>>

\* MultiheadAttention(embed_dim, num_heads, kdim=kdim, vdim=vdim)
Construct(embed_dim, num_heads, kdim, vdim) ==
    /\ module.status = "new"
    /\ module' = ModuleInit(embed_dim, num_heads, kdim, vdim)
    /\ UNCHANGED <<bsz, prev_state, result, chain>>

\* The caller starts a decoding sequence with an empty state dict.
NewState(b) ==
    /\ module.status = "ok"
    /\ result = NoResult
    /\ bsz = 0 \/ chain # <<>>
    /\ bsz' = b
    /\ prev_state' = EmptyState
    /\ chain' = <<>>
    /\ UNCHANGED <<module, result>>

\* One call forward(query, key, value, key_padding_mask, attn_mask, static_kv,
\* prev_state) with the caller's state dict.  The dict itself is only read.
Forward(static_kv, tgt_len, qtok, src, key_padding_mask, attn_mask) ==
    /\ module.status = "ok"
    /\ bsz > 0
    /\ result = NoResult
    /\ Len(chain) < MaxSteps
    /\ LET query == Input(Repeat(qtok, tgt_len), bsz, module.embed_dim)
           key == Input(src, bsz, module.embed_dim)
           value == Input(src, bsz, module.embed_dim)
           r == ModuleForward(module, query, key, value, key_padding_mask, attn_mask,
                              static_kv, Some(prev_state))
       IN /\ result' = [status |-> r.status, attn |-> r.attn, attn_weights |-> r.attn_weights,
                        new_state |-> r.new_state, kv_projected |-> r.kv_projected,
                        key |-> r.key, value |-> r.value, mask |-> r.mask,
                        static_kv |-> static_kv, query |-> query, src |-> key,
                        key_padding_mask |-> key_padding_mask, attn_mask |-> attn_mask,
                        given |-> prev_state]
          /\ prev_state' = StateAfterCall(prev_state, r.written)
    /\ UNCHANGED <<module, bsz, chain>>

\* The caller passes the returned state dict to the next call.
Thread ==
    /\ result # NoResult
    /\ result.status = "ok"
    /\ prev_state' = Get(result.new_state)
    /\ chain' = Append(chain, [static_kv |-> result.static_kv, src |-> result.src,
                               key_padding_mask |-> result.key_padding_mask,
                               kv_projected |-> result.kv_projected,
                               query |-> result.query,
                               new_state |-> Get(result.new_state)])
    /\ result' = NoResult
    /\ UNCHANGED <<module, bsz>>

\* The caller drops what the call returned or raised and keeps its state dict.
Drop ==
    /\ result # NoResult
    /\ result' = NoResult
    /\ UNCHANGED <<module, bsz, prev_state, chain>>

Next ==
    \/ \E c \in Configs, kd \in Dims, vd \in Dims : Construct(c[1], c[2], kd, vd)
    \/ \E b \in 1..MaxBatch : NewState(b)
    \/ \E s \in BOOLEAN, t \in TgtLens, q \in QueryTokens, src \in Sources,
          m \in PaddingMasks(bsz), a \in AttnMasks : Forward(s, t, q, src, m, a)
    \/ Thread
    \/ Drop

Spec == Init /\ [][Next]_vars

\* ---- vocabulary of the properties ---------------------------------------------
Pending == result # NoResult
Returned == Pending /\ result.status = "ok"
Failed == Pending /\ result.status # "ok"

\* History length of a state dict's entry (0 when the entry is absent).
HistLen(entry) == IF entry = None THEN 0 ELSE Get(entry).shape[3]

\* The calls of the chain followed by the call whose result is pending.
PendingCall == [static_kv |-> result.static_kv, src |-> result.src,
                key_padding_mask |-> result.key_padding_mask,
                kv_projected |-> result.kv_projected, query |-> result.query,
                new_state |-> Get(result.new_state)]
Calls == IF Returned THEN Append(chain, PendingCall) ELSE chain

Growing(cs) == \A i \in 1..Len(cs) : ~cs[i].static_kv
Static(cs) == \A i \in 1..Len(cs) : cs[i].static_kv
SingleStep(cs) == \A i \in 1..Len(cs) : cs[i].src.shape[1] = 1
AllMasked(cs) == \A i \in 1..Len(cs) : cs[i].key_padding_mask # None
NoneMasked(cs) == \A i \in 1..Len(cs) : cs[i].key_padding_mask = None
SameSource(cs) == \A i \in 1..Len(cs) : cs[i].src = cs[1].src

RECURSIVE Flatten(_)
Flatten(ss) == IF ss = <<>> THEN <<>> ELSE Head(ss) \o Flatten(Tail(ss))

\* Raw key tokens, query tokens and padding columns of the calls, in call order.
SourceTokens(cs) == Flatten([i \in 1..Len(cs) |-> cs[i].src.data])
QuerySeq(cs) == Flatten([i \in 1..Len(cs) |-> cs[i].query.data])
MaskColumns(cs) == Flatten([i \in 1..Len(cs) |-> Get(cs[i].key_padding_mask).data])

\* The causal attn_mask of an n-step sequence: row i closes the positions after i.
Causal(n) == Tensor(<<n, n>>, [i \in 1..n |-> [j \in 1..n |-> j > i]])

\* The whole sequence of the calls given once to the non-incremental path.
FullSequence(cs) ==
    LET n == Len(cs)
        toks == SourceTokens(cs)
    IN BaselineForward(module,
                       Input(QuerySeq(cs), bsz, module.embed_dim),
                       Input(toks, bsz, module.embed_dim),
                       Input(toks, bsz, module.embed_dim),
                       IF AllMasked(cs) THEN Some(Tensor(<<bsz, n>>, MaskColumns(cs))) ELSE None,
                       Some(Causal(n)))

\* The attn_mask an incremental step n passes for the causal mask: row n of it
\* cut to the n keys that exist, which is all zeros (or no mask at all).
CausalStepMask(a, n) == a = None \/ a = Some(Tensor(<<1, n>>, ZeroRow(n)))

\* A chain of single-step growing calls from the empty state, with a padding
\* column at every step or at none, the pending call being its last step.
EquivalenceCase ==
    /\ Returned
    /\ Growing(Calls) /\ SingleStep(Calls)
    /\ AllMasked(Calls) \/ NoneMasked(Calls)
    /\ CausalStepMask(result.attn_mask, Len(Calls))

C2_GrowsByOne ==
    (Returned /\ ~result.static_kv) =>
        /\ HistLen(Get(result.new_state).prev_key) = HistLen(result.given.prev_key) + 1
        /\ HistLen(Get(result.new_state).prev_value) = HistLen(result.given.prev_value) + 1

\* C2 (amended): every successful growing-mode call leaves prev_key and prev_value
\* longer by the number of timesteps of the key/value it was passed, so by exactly
\* one for a single-timestep key/value; after the n-th call of a chain of
\* single-timestep growing calls from the empty state the history length is n.
C2_GrowsByKeyLen ==
    /\ (Returned /\ ~result.static_kv) =>
          /\ HistLen(Get(result.new_state).prev_key)
                = HistLen(result.given.prev_key) + result.src.shape[1]
          /\ HistLen(Get(result.new_state).prev_value)
                = HistLen(result.given.prev_value) + result.src.shape[1]
    /\ (Growing(chain) /\ SingleStep(chain)) =>
          /\ HistLen(prev_state.prev_key) = Len(chain)
          /\ HistLen(prev_state.prev_value) = Len(chain)

C2_Witness ==
    /\ ~Pending
    /\ Growing(chain) /\ SingleStep(chain)
    /\ Len(chain) = 3
    /\ HistLen(prev_state.prev_key) = 3

\* C3: over K successive static-mode calls with a fixed source on one decoding
\* state from the empty state, the source projection is computed exactly once, on
\* the first call, and the state returned by each of calls 2..K holds the
\* static_key and static_value stored by the first call.
C3_StaticProjectedOnce ==
    (Len(chain) >= 1 /\ Static(chain) /\ SameSource(chain)) =>
        /\ chain[1].kv_projected
        /\ \A i \in 2..Len(chain) :
              /\ ~chain[i].kv_projected
              /\ chain[i].new_state.static_key # None
              /\ chain[i].new_state.static_key = chain[1].new_state.static_key
              /\ chain[i].new_state.static_value = chain[1].new_state.static_value

\* C4: in growing mode, after M calls from the empty state that each pass a
\* key_padding_mask, the cached prev_key_padding_mask is the concatenation of the
\* M masks in call order, oldest first.
C4_MaskAccumulates ==
    (Len(chain) >= 1 /\ Growing(chain) /\ AllMasked(chain)) =>
        /\ prev_state.prev_key_padding_mask # None
        /\ Get(prev_state.prev_key_padding_mask).data = MaskColumns(chain)
        /\ Get(prev_state.prev_key_padding_mask).shape = <<bsz, Len(MaskColumns(chain))>>

C4_Witness ==
    /\ Len(chain) = 3 /\ Growing(chain) /\ AllMasked(chain)
    /\ MaskColumns(chain) = <<TRUE, FALSE, FALSE>>

\* The cache families a state dict holds.
HasStatic(d) == d.static_key # None \/ d.static_value # None
HasPrev(d) == d.prev_key # None \/ d.prev_value # None

\* C5: in every state reached from the empty state by calls that all use the same
\* static_kv, exactly one cache family is populated after the first call: the
\* static one under static_kv=True, the prev one under static_kv=False.
C5_OneFamily ==
    /\ (Len(chain) >= 1 /\ Static(chain)) =>
          /\ prev_state.static_key # None /\ prev_state.static_value # None
          /\ ~HasPrev(prev_state)
    /\ (Len(chain) >= 1 /\ Growing(chain)) =>
          /\ prev_state.prev_key # None /\ prev_state.prev_value # None
          /\ ~HasStatic(prev_state)

C7_ConstructionChecks ==
    /\ (module.status # "new"
          /\ \/ module.embed_dim % module.num_heads # 0
             \/ module.kdim # module.embed_dim
             \/ module.vdim # module.embed_dim)
       => module.status = "AssertionError"
    /\ (module.status = "ok" \/ Pending) =>
          /\ module.head_dim * module.num_heads = module.embed_dim
          /\ module.qkv_same
    /\ Pending => result.status # "NotImplementedError"

C7_Witness ==
    /\ module.status = "AssertionError"
    /\ module.embed_dim = 10
    /\ module.num_heads = 3
    /\ module.qkv_same

Fields == {"static_key", "static_value", "prev_key", "prev_value", "prev_key_padding_mask"}
Written(d) == {f \in Fields : d[f] # None}

InvalidState(d, static_kv) ==
    \/ HasStatic(d) /\ HasPrev(d)
    \/ static_kv /\ HasPrev(d)
    \/ (~static_kv) /\ HasStatic(d)

\* C10: a call whose state holds both cache families, or a growing cache under
\* static_kv=True, or a static cache under static_kv=False, fails with an error.
C10_InvalidStateRejected ==
    (Pending /\ InvalidState(result.given, result.static_kv)) => result.status # "ok"

\* The pending call made again on the same state with another raw key/value.
Replayed(src) ==
    ModuleForward(module, result.query,
                  Input(src, bsz, module.embed_dim), Input(src, bsz, module.embed_dim),
                  result.key_padding_mask, result.attn_mask, result.static_kv,
                  Some(result.given))

\* A static-mode call on a state that holds the static cache.
StaticReuse ==
    /\ Pending
    /\ result.static_kv
    /\ result.given.static_key # None
    /\ result.given.static_value # None

\* C11: two static-mode calls on the same state holding static_key/static_value,
\* with the same query, key_padding_mask and attn_mask but different raw
\* key/value (a different source length included), have the same outcome: both
\* succeed or both fail, with the same output, weights and returned state.
C11_RawKeyIgnored ==
    StaticReuse =>
        \A src \in Sources :
            LET other == Replayed(src)
            IN /\ (other.status = "ok") = (result.status = "ok")
               /\ other.attn = result.attn
               /\ other.attn_weights = result.attn_weights
               /\ other.new_state = result.new_state

\* C12: whenever an incremental call fails, in static or in growing mode, the
\* dict the caller passed as prev_state has the same keys and values as before.
C12_FailureLeavesState ==
    Failed => /\ prev_state = result.given
              /\ Written(prev_state) = Written(result.given)

C12_Witness ==
    /\ Failed
    /\ result.status = "RuntimeError"
    /\ result.query.shape[1] = 2
    /\ ~result.static_kv
    /\ HistLen(result.given.prev_key) = 1
    /\ prev_state = result.given

\* Whether position j of a row of width w is closed by an optional mask row.
Closes(m, j, w) == m # None /\ Expand(Get(m).data, w)[j]

\* C13: no static-mode call adds prev_key_padding_mask, prev_key or prev_value to
\* the returned state, and the padding mask it applies to the scores is exactly
\* the key_padding_mask passed to that call (none when omitted), whatever masks
\* earlier calls were given.
C13_StaticMaskNotCached ==
    (Returned /\ result.static_kv) =>
        LET weights == Get(result.attn_weights)
            w == weights.shape[3]
        IN /\ Get(result.new_state).prev_key_padding_mask = None
           /\ Get(result.new_state).prev_key = None
           /\ Get(result.new_state).prev_value = None
           /\ result.mask = result.key_padding_mask
           /\ \A j \in 1..w :
                 weights.data[1][j].neg_inf
                    = (Closes(result.attn_mask, j, w) \/ Closes(result.key_padding_mask, j, w))

C13_Witness ==
    /\ Returned
    /\ result.static_kv
    /\ Len(chain) = 2
    /\ Static(chain)
    /\ chain[1].key_padding_mask = Some(Tensor(<<bsz, 2>>, PadLast(2)))
    /\ chain[2].key_padding_mask = None
    /\ result.key_padding_mask = Some(Tensor(<<bsz, 1>>, <<TRUE>>))

\* C14: in every growing-mode state reached from the empty state by successful
\* calls that each pass or omit key_padding_mask, a cached prev_key_padding_mask
\* is as long as the history of prev_key, and the mask applied in a call is as
\* long as the keys attended over in that call.
C14_MaskAlignedWithHistory ==
    /\ (Growing(chain) /\ prev_state.prev_key_padding_mask # None) =>
          Get(prev_state.prev_key_padding_mask).shape[2] = HistLen(prev_state.prev_key)
    /\ (Returned /\ Growing(Calls) /\ result.mask # None) =>
          Get(result.mask).shape[2] = Get(result.key).shape[2]

====
